---- MODULE Spec2Model ----
(***************************************************************************)
(* Scroll-spy side navigation of the Resources page                        *)
(* (src/app/(pages)/resources/page.tsx, component ResourceNav).            *)
(*                                                                         *)
(* State: the two React state cells (activeId, isManualScroll), the        *)
(* sectionsRef ref, the scroll listener registered by the effect together  *)
(* with the isManualScroll value its closure captured, the pending         *)
(* setTimeout callbacks, and the part of the browser the callbacks read:   *)
(* the data-section elements in document order with their offsetTop, the   *)
(* window scroll position and the last window.scrollTo request.            *)
(*                                                                         *)
(* The scroll listener is a native window listener: the browser calls the  *)
(* closure registered by the last effect run on every scroll event.  After *)
(* a state change React renders the component again and later runs the     *)
(* effect of that render, which closes over the state of that render; the  *)
(* effect of a render runs before the next render.  Until the effect has   *)
(* run, a scroll event is handled by the previous closure.  The nav items  *)
(* carry their onClick from the first render, before the mount effect.     *)
(* Every callback returns to the event loop before React renders: the      *)
(* render and the effect run are steps of their own, and other callbacks   *)
(* can run before them (after a click React may also take both at once).   *)
(***************************************************************************)
EXTENDS Integers, Sequences, FiniteSets

\* ---------------------------------------------------------------- bounds
MaxSections == 2      \* data-section elements in the document
MaxTop      == 3      \* offsetTop ranges over (0..MaxTop) * Step
MaxPage     == 1      \* maxScrollY is MaxPage * Step
Step        == 80     \* pixel grid of offsets and scroll positions
MaxTimers   == 2      \* pending setTimeout callbacks
LiveSections == 1     \* data-section elements in the layouts of FairSpec

\* ------------------------------------------------------ program constants
SCROLL_OFFSET == 80
DEFAULT_ID == "get-involved"
ID_LABELS_MAPPING == <<"get-involved", "learn", "build", "design">>

NavIds == {ID_LABELS_MAPPING[i] : i \in 1..Len(ID_LABELS_MAPPING)}

\* the ids a data-section element of the markdown content may carry, in the
\* order the elements appear in the document ("other" is no nav item; the
\* nav items "build" and "design" stand for those without a section)
DOCUMENT_ORDER == <<"get-involved", "learn", "other">>

SectionIds == {DOCUMENT_ORDER[i] : i \in 1..Len(DOCUMENT_ORDER)}

OrderOf(id) == CHOOSE i \in 1..Len(DOCUMENT_ORDER) : DOCUMENT_ORDER[i] = id

VARIABLES
  sections,        \* document.querySelectorAll("div[data-section]"), document order
  maxScrollY,      \* scrollable range of the page
  scrollY,         \* window.scrollY
  scrollRequest,   \* <<top>> of the last window.scrollTo call, <<>> if none
  activeId,        \* useState("")
  isManualScroll,  \* useState(false)
  sectionsRef,     \* useRef(null): <<>> is null, <<list>> is the NodeList
  handler,         \* the registered scroll listener and its captured isManualScroll
  rendered,        \* activeId and isManualScroll as of the last render
  effectPending,   \* the effect of the last render has yet to run
  timers,          \* pending setTimeout callbacks, oldest first (same delay: FIFO),
                   \* each with whether the click that set it found its element
  clicked,         \* the id of the last click that found its element, "" if none
  ev               \* the event handled last: "scroll" or the nav item clicked;
                   \* "none" after a render, an effect run or a timer callback

vars == <<sections, maxScrollY, scrollY, scrollRequest, activeId, isManualScroll,
          sectionsRef, handler, rendered, effectPending, timers, clicked, ev>>

layout == <<sections, maxScrollY>>

Tops == {k * Step : k \in 0..MaxTop}

InDocumentOrder(s) == \A i, j \in 1..Len(s) : i < j => OrderOf(s[i].id) < OrderOf(s[j].id)

Layouts ==
  UNION {{s \in [1..n -> [id : SectionIds, offsetTop : Tops]] : InDocumentOrder(s)}
         : n \in 0..MaxSections}

\* the positions of the grid / those the window can be scrolled to
AllPositions == {k * Step : k \in 0..MaxPage}

ScrollPositions == {y \in AllPositions : y <= maxScrollY}

\* document.getElementById(id): the indices of the elements with that id
ElementsById(id) == {i \in 1..Len(sections) : sections[i].id = id}

\* variant: the lookup ignores the id and returns the first section
getElementByIdFirst(id) == IF Len(sections) = 0 THEN 0 ELSE 1

getElementById(id) ==
  IF ElementsById(id) = {} THEN 0
  ELSE CHOOSE i \in ElementsById(id) : \A j \in ElementsById(id) : i <= j

\* sectionsRef.current?.forEach(...) of handleScroll: every matching section
\* overwrites the id set by the ones before it
\* variant: reads an attribute the section does not carry (null, i.e. falsy)
RECURSIVE forEachNoAttr(_, _, _, _)
forEachNoAttr(list, i, y, acc) ==
  IF i > Len(list) THEN acc
  ELSE LET sectionTop == list[i].offsetTop - SCROLL_OFFSET
       IN forEachNoAttr(list, i + 1, y,
                        IF y >= sectionTop /\ y > 0 THEN "" ELSE acc)

RECURSIVE forEach(_, _, _, _)
forEach(list, i, y, acc) ==
  IF i > Len(list) THEN acc
  ELSE LET sectionTop == list[i].offsetTop - SCROLL_OFFSET
       IN forEach(list, i + 1, y,
                  IF y >= sectionTop /\ y > 0 THEN list[i].id ELSE acc)

handleScrollResult(captured, ref, y, active) ==
  IF captured THEN active
  ELSE IF ref = <<>> THEN active
  ELSE forEach(ref[1], 1, y, active)

\* variant: no default is set
effectActiveIdNone(closed, active) == active

\* if (!activeId) setActiveId("get-involved"), activeId being the value the
\* effect closed over; the update lands after those already made
effectActiveId(closed, active) == IF closed = "" THEN DEFAULT_ID ELSE active

\* variant: the offset is not subtracted
scrollToTopNoOffset(el) == sections[el].offsetTop

\* top: (top ?? 0) - SCROLL_OFFSET
scrollToTop(el) == sections[el].offsetTop - SCROLL_OFFSET

\* variant: the callback leaves the flag as it is
timerResultKeep(manual) == manual

\* setTimeout(() => setIsManualScroll(false), 800)
timerResult(manual) == FALSE

Init ==
  /\ sections \in Layouts
  /\ maxScrollY = MaxPage * Step
  /\ scrollY = 0
  /\ scrollRequest = <<>>
  /\ activeId = ""
  /\ isManualScroll = FALSE
  /\ sectionsRef = <<>>
  /\ handler = [registered |-> FALSE, isManualScroll |-> FALSE]
  /\ rendered = [activeId |-> "", isManualScroll |-> FALSE]
  /\ effectPending = TRUE
  /\ timers = <<>>
  /\ clicked = ""
  /\ ev = "none"

\* the component function runs again after a state change, once the effect
\* of the render before has run; the deps [activeId, isManualScroll] of the
\* effect have then changed
Render ==
  /\ ~effectPending
  /\ rendered # [activeId |-> activeId, isManualScroll |-> isManualScroll]
  /\ rendered' = [activeId |-> activeId, isManualScroll |-> isManualScroll]
  /\ effectPending' = TRUE
  /\ ev' = "none"
  /\ UNCHANGED <<layout, scrollY, scrollRequest, activeId, isManualScroll, sectionsRef,
                 handler, timers, clicked>>

\* useEffect(..., [activeId, isManualScroll]) of the last render
Effect ==
  /\ effectPending
  /\ sectionsRef' = IF sectionsRef = <<>> THEN <<sections>> ELSE sectionsRef
  /\ activeId' = effectActiveId(rendered.activeId, activeId)
  /\ handler' = [registered |-> TRUE, isManualScroll |-> rendered.isManualScroll]
  /\ effectPending' = FALSE
  /\ ev' = "none"
  /\ UNCHANGED <<layout, scrollY, scrollRequest, isManualScroll, rendered, timers, clicked>>

\* a scroll event of the window, at position y, handled by the registered listener
HandleScroll(y) ==
  /\ handler.registered
  /\ y \in ScrollPositions
  /\ scrollY' = y
  /\ activeId' = handleScrollResult(handler.isManualScroll, sectionsRef, y, activeId)
  /\ ev' = "scroll"
  /\ UNCHANGED <<layout, scrollRequest, isManualScroll, sectionsRef, handler, rendered,
                 effectPending, timers, clicked>>

\* onClick of the nav item id: scrollToId(id)
scrollToId(id) ==
  /\ Len(timers) < MaxTimers
  /\ LET element == getElementById(id)
     IN IF element # 0
        THEN /\ activeId' = id
             /\ isManualScroll' = TRUE
             /\ scrollRequest' = <<scrollToTop(element)>>
             /\ clicked' = id
        ELSE UNCHANGED <<activeId, isManualScroll, scrollRequest, clicked>>
  /\ timers' = Append(timers, getElementById(id) # 0)
  /\ ev' = id
  /\ UNCHANGED <<layout, scrollY, sectionsRef, handler, rendered, effectPending>>

\* the callback of the oldest pending timer runs
TimerFire ==
  /\ timers # <<>>
  /\ timers' = Tail(timers)
  /\ isManualScroll' = timerResult(isManualScroll)
  /\ ev' = "none"
  /\ UNCHANGED <<layout, scrollY, scrollRequest, activeId, sectionsRef, handler, rendered,
                 effectPending, clicked>>

Next ==
  \/ Render
  \/ Effect
  \/ \E y \in AllPositions : HandleScroll(y)
  \/ \E id \in NavIds : scrollToId(id)
  \/ TimerFire

Spec == Init /\ [][Next]_vars

\* timers fire 800 ms after they are set, and React renders after a state
\* change and runs pending effects
InitLive == Init /\ Len(sections) <= LiveSections

FairSpec ==
  InitLive /\ [][Next]_vars /\ WF_vars(TimerFire) /\ WF_vars(Render) /\ WF_vars(Effect)

\* ------------------------------------------------------------ properties
\* the step handles a scroll event / runs the effect / runs the mount effect
ScrollStep == ev' = "scroll"

EffectStep == effectPending /\ ~effectPending'

MountEffectStep == EffectStep /\ sectionsRef = <<>>

Exists(id) == \E i \in 1..Len(sections) : sections[i].id = id

OffsetTopOf(id) == sections[CHOOSE i \in 1..Len(sections) : sections[i].id = id].offsetTop

\* indices of the sections whose (offsetTop - 80) is <= y
Matching(y) == {i \in 1..Len(sections) : sections[i].offsetTop - 80 <= y}

LastOf(S) == CHOOSE i \in S : \A j \in S : j <= i

Increasing ==
  \A i, j \in 1..Len(sections) : i < j => sections[i].offsetTop < sections[j].offsetTop

Clamp(t) == IF t < 0 THEN 0 ELSE IF t > maxScrollY THEN maxScrollY ELSE t

\* C1 (as claimed): a scroll event handled while isManualScroll is false and scrollY > 0
\* makes activeId the id of the last section in document order whose
\* (offsetTop - 80) is <= scrollY, and leaves activeId unchanged if there is
\* no such section.
C1_ScrollSpyResult ==
  [][(ScrollStep /\ ~isManualScroll /\ scrollY' > 0)
       => activeId' = IF Matching(scrollY') = {} THEN activeId
                      ELSE sections[LastOf(Matching(scrollY'))].id]_vars

\* the pending timers of the clicks on existing sections; timers fire in the
\* order they were set, so if there is one, the timer of the last such click
\* is among them
OpenWindows == {i \in 1..Len(timers) : timers[i]}

\* C2 (as claimed): a scroll event delivered between a click on an existing
\* section and the firing of the timer of that click leaves activeId equal
\* to the clicked id, whatever other clicks and timers interleave.
C2_ClickScrollIgnored ==
  [][(ScrollStep /\ OpenWindows # {})
       => activeId' = clicked]_vars

\* C3: a click on a nav item whose element exists sets activeId to the id
\* and isManualScroll to true in one step and requests a scroll to
\* offsetTop - 80, whatever the state before.
C3_ClickExisting ==
  [][\A id \in NavIds :
       (ev' = id /\ Exists(id))
         => /\ activeId' = id
            /\ isManualScroll' = TRUE
            /\ scrollRequest' = <<OffsetTopOf(id) - 80>>]_vars

\* a click on "learn" took the highlight from another section while the
\* window was scrolled down
C3_Witness ==
  /\ ev = "learn" /\ Exists("learn")
  /\ activeId = "learn" /\ isManualScroll
  /\ scrollRequest = <<OffsetTopOf("learn") - 80>>
  /\ scrollY > 0

SectionsAreNavIds == \A i \in 1..Len(sections) : sections[i].id \in NavIds

\* C4: if every data-section id is a nav id then, once the mount effect has
\* run, activeId is one of the four nav ids and exactly one nav item is
\* highlighted.
C4_OneActive ==
  (sectionsRef # <<>> /\ SectionsAreNavIds)
    => /\ activeId \in NavIds
       /\ Cardinality({i \in 1..Len(ID_LABELS_MAPPING) : ID_LABELS_MAPPING[i] = activeId}) = 1

\* the scroll-spy moved the highlight from the default to the next nav item
C4_Witness ==
  /\ sectionsRef # <<>> /\ SectionsAreNavIds
  /\ ev = "scroll" /\ activeId = "learn" /\ clicked = "" /\ scrollY > 0
  /\ Len(sections) = 2

\* C5: activeId starts empty; the mount effect sets it to "get-involved", as
\* does every effect run that finds it empty; it leaves "get-involved" only
\* by a scroll event that matches a section or by a click on an existing
\* section.
C5_DefaultHighlight ==
  /\ activeId = ""
  /\ [][/\ MountEffectStep => activeId' = "get-involved"
        /\ (EffectStep /\ activeId = "") => activeId' = "get-involved"
        /\ (activeId = "get-involved" /\ activeId' # "get-involved")
             => \/ ScrollStep /\ scrollY' > 0 /\ Matching(scrollY') # {}
                \/ ev' \in NavIds /\ Exists(ev')]_vars

\* the mount effect has just set the default
C5_Witness ==
  /\ activeId = "get-involved" /\ handler.registered
  /\ rendered.activeId = "" /\ ~effectPending
  /\ timers = <<>> /\ clicked = "" /\ scrollY = 0

\* C6 (as claimed): after a click on an existing section X, with the window
\* at rest at the requested position clamped to [0, maxScrollY] and
\* isManualScroll false again, a scroll event at that position leaves
\* activeId = X, for every layout with strictly increasing offsets.
C6_ClickSpyAgree ==
  [][(/\ ScrollStep
      /\ Increasing
      /\ ~isManualScroll
      /\ Exists(activeId)
      /\ scrollRequest = <<OffsetTopOf(activeId) - 80>>
      /\ scrollY' = Clamp(scrollRequest[1]))
       => activeId' = activeId]_vars

\* C7: every click schedules one timer, and under fair firing of timers
\* isManualScroll = true is always followed by isManualScroll = false.
C7_SpyResumes ==
  /\ [][ev' \in NavIds => Len(timers') = Len(timers) + 1]_vars
  /\ (isManualScroll ~> ~isManualScroll)

\* a click has just switched the scroll-spy off
C7_Witness ==
  /\ ev \in NavIds /\ Exists(ev) /\ timers = <<TRUE>>
  /\ isManualScroll /\ ~handler.isManualScroll

\* C8: a click on a nav id without an element changes neither activeId nor
\* isManualScroll nor the scroll position, requests no scroll, and only
\* schedules a timer.
C8_ClickMissing ==
  [][\A id \in NavIds :
       (ev' = id /\ ~Exists(id))
         => /\ UNCHANGED <<activeId, isManualScroll, scrollY, scrollRequest>>
            /\ UNCHANGED <<sectionsRef, handler, rendered, effectPending>>
            /\ timers' = Append(timers, FALSE)]_vars

\* a click on the missing "design" arrived while a manual scroll was under way
C8_Witness ==
  /\ ev = "design" /\ ~Exists("design")
  /\ timers = <<TRUE, FALSE>>
  /\ isManualScroll /\ activeId = clicked
  /\ scrollRequest # <<>>
====
